---------------------------- MODULE Spec2Model ----------------------------
(***************************************************************************)
(* Model of the capture scheduler of pinsect-cam (src/src/pinsect/model.py *)
(* and the construction of its state in src/src/pinsect_cam.py).           *)
(*                                                                         *)
(* One control-plane caller (the Tk main loop, or a harness) invokes the   *)
(* public operations of AppModel and of the worker objects; every          *)
(* threading.Thread spawned by RaspiStillThread.start runs _run            *)
(* concurrently.  A control-plane call is one atomic action (it runs to    *)
(* completion on the caller's thread and the spawned threads only touch    *)
(* the flags of their own worker under its lock), except take_image, which *)
(* blocks in the external tool: it begins, and ends in a later step, with  *)
(* the caller busy in between.  A spawned thread takes one action to       *)
(* acquire its worker's lock, one to write the flags and release it, and   *)
(* one per loop test.                                                      *)
(*                                                                         *)
(* Python's None and 0 are both falsy in AppState.__init__; a missing      *)
(* command-line override is written 0 here.                                *)
(***************************************************************************)
EXTENDS Integers, Sequences, FiniteSets, TLC

VARIABLES
    mode,       \* AppState.state
    interval,   \* AppState.interval
    work_dir,   \* AppState.work_dir
    min_free,   \* AppState.min_free
    workers,    \* every RaspiStillThread object constructed so far, in order
    now,        \* datetime.datetime.now(), in whole seconds
    disk_low,   \* the file system has fewer free bytes than min_free * 1024 * 1024
    uiupdates,  \* number of times AppState.on_uiupdate has been fired
    images,     \* the paths AppState.on_image has been fired with, in order
    errors,     \* number of user-visible error dialogs (ui.show_error, messagebox.showerror)
    calls,      \* number of control-plane calls made so far
    capturing,  \* the take_image call the caller is inside of, if any
    lastCall    \* the last control-plane call: what it was and how it ended

vars == <<mode, interval, work_dir, min_free, workers, now, disk_low,
          uiupdates, images, errors, calls, capturing, lastCall>>

-----------------------------------------------------------------------------
(* Program constants.                                                      *)

IDLE == "idle"
RECORDING == "recording"
PREVIEW == "preview"
STATES == {IDLE, RECORDING, PREVIEW}

MIN_INTERVAL == 1
MAX_INTERVAL == 60 * 10

DEFAULT_INTERVAL == 60
DEFAULT_WORK_DIR == "~/pinsect-cam"
DEFAULT_MIN_FREE == 50

-----------------------------------------------------------------------------
(* Bounds of the model.                                                    *)

MaxWorkers == 2     \* worker objects constructed in one run
MaxCalls == 3       \* control-plane calls in one run
MaxClock == 1       \* seconds the clock advances in one run

\* --interval values given on the command line (0: not given).
ArgIntervals == {0, 700}
\* interval values found in the settings store (60: the built-in default).
CfgIntervals == {DEFAULT_INTERVAL}
\* arguments set_interval is called with.
IntervalInputs == {0, MIN_INTERVAL, MAX_INTERVAL, MAX_INTERVAL + 1}
\* how one external capture (mkdir + subprocess.run of raspistill) can end:
\* the tool ran and exited 0, the tool ran and exited non-zero (subprocess.run
\* without check=True returns normally), or an OSError was raised.
CaptureOutcomes == {"ok", "exit_nonzero", "oserror"}
\* how the mkdir of RecordThread.get_jpeg_path can end.
MkdirOutcomes == {"ok", "oserror"}

-----------------------------------------------------------------------------
(* Pure helpers.                                                           *)

\* AppState.__init__: `args.x or config.x`.
AppState_init(arg, cfg) == IF arg # 0 THEN arg ELSE cfg

\* AppModel.get_interval
get_interval == interval

\* AppModel.preview_path / PreviewThread.get_jpeg_path
PreviewThread_get_jpeg_path == [dir |-> work_dir, sub |-> "", file |-> "preview.jpeg", token |-> 0]

\* RecordThread.get_jpeg_path: <work_dir>/<year>/MBF_<timestamp to the second>.jpeg
RecordThread_get_jpeg_path == [dir |-> work_dir, sub |-> "year", file |-> "MBF", token |-> now]

get_jpeg_path(kind) ==
    IF kind = PREVIEW THEN PreviewThread_get_jpeg_path ELSE RecordThread_get_jpeg_path

\* A Record worker waiting the built-in default instead of the live setting.
get_interval_default(kind) == IF kind = PREVIEW THEN 1 ELSE DEFAULT_INTERVAL

\* PreviewThread.get_interval / RecordThread.get_interval
Thread_get_interval(kind) == IF kind = PREVIEW THEN 1 ELSE interval

\* RaspiStillThread.__init__: a fresh worker object, no thread yet.
\*   lock   : who holds self.lock: "free", "thread" (a spawned thread) or
\*            "caller" (the control-plane caller)
\*   spawned: threads created by start() that have not yet entered _run
\*   entering: threads inside the lock region at the top of _run
\*   looping: threads inside the while loop of _run
\*   exited : threads that left _run normally (lines 180-182)
\*   dead   : threads ended by an exception propagating out of _run
NewThread(kind) ==
    [kind |-> kind, running |-> FALSE, stop |-> FALSE, lock |-> "free",
     spawned |-> 0, entering |-> 0, looping |-> 0, exited |-> 0, dead |-> 0]

\* Threads of worker w that are started and whose _run has not yet ended.
Live(w) == w.spawned + w.entering + w.looping

WorkerIds == 1..Len(workers)

\* The record of one control-plane call: the operation, its argument, the
\* exception it raised, the value it returned, the mode it was made in, and
\* whether the call before it was a start_preview made in Idle.  `outcome` is
\* how the mkdir or the external capture of the call ended ("none": the call
\* made neither).
CallRec(op, arg, raised, ret) ==
    [op |-> op, arg |-> arg, raised |-> raised, ret |-> ret, pre |-> mode,
     prevStart |-> (lastCall.op = "start_preview" /\ lastCall.pre = IDLE),
     outcome |-> "none"]

NoPath == [dir |-> "", sub |-> "", file |-> "", token |-> 0]

\* The caller is inside no take_image call.
NoCapture == [w |-> 0, path |-> NoPath]

\* The control-plane caller can make a call: it is not blocked in a capture.
CallerFree == capturing.w = 0 /\ calls < MaxCalls

-----------------------------------------------------------------------------
(* Initial state: run() builds AppState from the stored settings merged     *)
(* with the command-line overrides; nothing validates the merged interval.  *)

Init ==
    /\ mode = IDLE
    /\ \E a \in ArgIntervals, c \in CfgIntervals : interval = AppState_init(a, c)
    /\ work_dir = AppState_init(0, DEFAULT_WORK_DIR)
    /\ min_free = AppState_init(0, DEFAULT_MIN_FREE)
    /\ workers = <<>>
    /\ now = 0
    /\ disk_low \in BOOLEAN
    /\ uiupdates = 0
    /\ images = <<>>
    /\ errors = 0
    /\ calls = 0
    /\ capturing = NoCapture
    /\ lastCall = [op |-> "none", arg |-> 0, raised |-> "none", ret |-> NoPath,
                   pre |-> IDLE, prevStart |-> FALSE, outcome |-> "none"]

-----------------------------------------------------------------------------
(* AppModel: the effect of each operation on (mode, on_uiupdate firings).   *)

AppSt == [mode |-> mode, uiupdates |-> uiupdates]

\* stop_preview without its guard (the shape of stop_recording).
stop_preview_unguarded(st) ==
    [mode |-> IDLE, uiupdates |-> st.uiupdates + 1]

\* AppModel.stop_preview: returns early unless the mode is PREVIEW; the worker
\* object is not referenced (start_preview keeps it in a local variable only).
AppModel_stop_preview(st) ==
    IF st.mode # PREVIEW
    THEN st
    ELSE [mode |-> IDLE, uiupdates |-> st.uiupdates + 1]

\* AppModel.stop_recording: no guard on the mode.
AppModel_stop_recording(st) ==
    [mode |-> IDLE, uiupdates |-> st.uiupdates + 1]

\* set_interval clamping an out-of-range value instead of rejecting it.
set_interval_clamping(cur, n) ==
    IF n < MIN_INTERVAL THEN MIN_INTERVAL
    ELSE IF n > MAX_INTERVAL THEN MAX_INTERVAL ELSE n

\* set_interval rejecting the two ends of the range as well.
set_interval_exclusive(cur, n) ==
    IF n <= MIN_INTERVAL \/ n >= MAX_INTERVAL THEN cur ELSE n

\* AppModel.set_interval: the new value of AppState.interval.
AppModel_set_interval(cur, n) ==
    IF n < MIN_INTERVAL \/ n > MAX_INTERVAL THEN cur ELSE n

-----------------------------------------------------------------------------
(* RaspiStillThread: start and stop as functions of the worker object.      *)

\* RaspiStillThread.start: under the lock, spawn a thread unless `running`
\* (which only the spawned thread itself sets, in _run).
RaspiStillThread_start(w) ==
    IF w.running THEN w ELSE [w EXCEPT !.spawned = @ + 1]

\* RaspiStillThread.stop, the method body: under the lock, set the stop flag
\* if running.
RaspiStillThread_stop(w) ==
    IF ~w.running THEN w ELSE [w EXCEPT !.stop = TRUE]

\* The expression `self.stop()` on an instance: __init__ binds the instance
\* attribute `stop` to a bool, which shadows the method of the class, so the
\* call raises TypeError ('bool' object is not callable) and changes nothing.
CallStop(w) ==
    IF w.stop \in BOOLEAN
    THEN [raised |-> "TypeError", w |-> w]
    ELSE [raised |-> "none", w |-> RaspiStillThread_stop(w)]

-----------------------------------------------------------------------------
(* Control-plane calls.                                                      *)

start_preview ==
    /\ CallerFree
    /\ Len(workers) < MaxWorkers
    /\ mode' = PREVIEW
    /\ workers' = Append(workers, RaspiStillThread_start(NewThread(PREVIEW)))
    /\ uiupdates' = uiupdates + 1
    /\ calls' = calls + 1
    /\ lastCall' = CallRec("start_preview", 0, "none", get_jpeg_path(PREVIEW))
    /\ UNCHANGED <<interval, work_dir, min_free, now, disk_low, images, errors, capturing>>

stop_preview ==
    /\ CallerFree
    /\ mode' = AppModel_stop_preview(AppSt).mode
    /\ uiupdates' = AppModel_stop_preview(AppSt).uiupdates
    /\ calls' = calls + 1
    /\ lastCall' = CallRec("stop_preview", 0, "none", NoPath)
    /\ UNCHANGED <<interval, work_dir, min_free, workers, now, disk_low, images, errors, capturing>>

\* start_recording: the mode is assigned first; RecordThread.get_jpeg_path
\* then creates the year directory, and an OSError of that mkdir leaves the
\* operation before the thread is started and before on_uiupdate is fired
\* (the worker object, a local of the operation, is lost).
start_recording(mk) ==
    /\ CallerFree
    /\ Len(workers) < MaxWorkers
    /\ mode' = RECORDING
    /\ calls' = calls + 1
    /\ IF mk = "ok"
       THEN /\ workers' = Append(workers, RaspiStillThread_start(NewThread(RECORDING)))
            /\ uiupdates' = uiupdates + 1
            /\ lastCall' = [CallRec("start_recording", 0, "none", get_jpeg_path(RECORDING))
                              EXCEPT !.outcome = mk]
       ELSE /\ lastCall' = [CallRec("start_recording", 0, "OSError", NoPath)
                              EXCEPT !.outcome = mk]
            /\ UNCHANGED <<workers, uiupdates>>
    /\ UNCHANGED <<interval, work_dir, min_free, now, disk_low, images, errors, capturing>>

stop_recording ==
    /\ CallerFree
    /\ mode' = AppModel_stop_recording(AppSt).mode
    /\ uiupdates' = AppModel_stop_recording(AppSt).uiupdates
    /\ calls' = calls + 1
    /\ lastCall' = CallRec("stop_recording", 0, "none", NoPath)
    /\ UNCHANGED <<interval, work_dir, min_free, workers, now, disk_low, images, errors, capturing>>

set_interval(n) ==
    /\ CallerFree
    /\ interval' = AppModel_set_interval(interval, n)
    /\ calls' = calls + 1
    /\ lastCall' = CallRec("set_interval", n, "none", NoPath)
    /\ UNCHANGED <<mode, work_dir, min_free, workers, now, disk_low, uiupdates, images, errors, capturing>>

\* worker.start() called again on an existing worker object; the caller gets
\* the lock once no thread holds it.
Thread_start(i) ==
    /\ CallerFree
    /\ workers[i].lock = "free"
    /\ workers' = [workers EXCEPT ![i] = RaspiStillThread_start(@)]
    /\ calls' = calls + 1
    /\ lastCall' = CallRec("start", i, "none", NoPath)
    /\ UNCHANGED <<mode, interval, work_dir, min_free, now, disk_low, uiupdates, images, errors, capturing>>

\* worker.stop() called on an existing worker object.
Thread_stop(i) ==
    /\ CallerFree
    /\ workers' = [workers EXCEPT ![i] = CallStop(@).w]
    /\ calls' = calls + 1
    /\ lastCall' = CallRec("stop", i, CallStop(workers[i]).raised, NoPath)
    /\ UNCHANGED <<mode, interval, work_dir, min_free, now, disk_low, uiupdates, images, errors, capturing>>

\* take_image wrapped in `with self.lock:`.
take_image_begin_locked(i, mk) ==
    /\ CallerFree
    /\ mk = "ok"
    /\ workers[i].lock = "free"
    /\ capturing' = [w |-> i, path |-> get_jpeg_path(workers[i].kind)]
    /\ workers' = [workers EXCEPT ![i].lock = "caller"]
    /\ UNCHANGED <<mode, interval, work_dir, min_free, now, disk_low,
                   uiupdates, images, errors, calls, lastCall>>

\* worker.take_image(), lines 198-205: the output path is computed (for a
\* Record worker this creates the year directory; the first computation, line
\* 199, is outside the try block, so an OSError of its mkdir leaves take_image
\* unhandled), then the external tool is started.  No lock is taken.
take_image_begin(i, mk) ==
    /\ CallerFree
    /\ mk # "ok" => workers[i].kind = RECORDING
    /\ IF mk = "ok"
       THEN /\ capturing' = [w |-> i, path |-> get_jpeg_path(workers[i].kind)]
            /\ UNCHANGED <<calls, lastCall>>
       ELSE /\ calls' = calls + 1
            /\ lastCall' = [CallRec("take_image", i, "OSError", NoPath)
                              EXCEPT !.outcome = "mkdir_oserror"]
            /\ UNCHANGED capturing
    /\ UNCHANGED <<mode, interval, work_dir, min_free, workers, now, disk_low,
                   uiupdates, images, errors>>

\* worker.take_image(), lines 205-222: the external tool has ended.  When
\* subprocess.run returns (whatever the exit status) on_image is fired with the
\* path.  When the try block raises, the handler shows the error, calls
\* stop_preview and stop_recording on the model, and then evaluates
\* self.stop(), whose TypeError replaces the original exception.
take_image_end(outcome) ==
    LET i == capturing.w
        path == capturing.path
        st == AppModel_stop_recording(AppModel_stop_preview(AppSt))
    IN
    /\ capturing.w # 0
    /\ capturing' = NoCapture
    /\ calls' = calls + 1
    /\ IF outcome # "oserror"
       THEN /\ images' = Append(images, path)
            /\ lastCall' = [CallRec("take_image", i, "none", path)
                              EXCEPT !.outcome = outcome]
            /\ UNCHANGED <<mode, uiupdates, errors, workers>>
       ELSE /\ errors' = errors + 1
            /\ mode' = st.mode
            /\ uiupdates' = st.uiupdates
            /\ workers' = [workers EXCEPT ![i] = CallStop(@).w]
            /\ lastCall' = [CallRec("take_image", i, CallStop(workers[i]).raised, NoPath)
                              EXCEPT !.outcome = outcome]
            /\ UNCHANGED images
    /\ UNCHANGED <<interval, work_dir, min_free, now, disk_low>>

-----------------------------------------------------------------------------
(* The spawned threads: RaspiStillThread._run.                               *)

\* _run, line 171: the spawned thread acquires the worker's lock.
Run_acquire(i) ==
    /\ workers[i].spawned > 0
    /\ workers[i].lock = "free"
    /\ workers' = [workers EXCEPT ![i] =
                     [@ EXCEPT !.spawned = @ - 1, !.entering = @ + 1,
                               !.lock = "thread"]]
    /\ UNCHANGED <<mode, interval, work_dir, min_free, now, disk_low,
                   uiupdates, images, errors, calls, capturing, lastCall>>

\* _run, lines 172-173: under the lock, mark the worker running; the lock is
\* released on leaving the with block.
Run_enter(i) ==
    /\ workers[i].entering > 0
    /\ workers' = [workers EXCEPT ![i] =
                     [@ EXCEPT !.entering = @ - 1, !.looping = @ + 1,
                               !.running = TRUE, !.stop = FALSE,
                               !.lock = "free"]]
    /\ UNCHANGED <<mode, interval, work_dir, min_free, now, disk_low,
                   uiupdates, images, errors, calls, capturing, lastCall>>

\* A loop that passes the disk check and keeps iterating until the stop flag
\* is set.
Run_loop_until_stopped(i) ==
    /\ workers[i].looping > 0
    /\ workers[i].stop
    /\ workers' = [workers EXCEPT ![i] =
                     [@ EXCEPT !.looping = @ - 1, !.exited = @ + 1,
                               !.stop = FALSE, !.running = FALSE]]
    /\ UNCHANGED <<mode, interval, work_dir, min_free, now, disk_low,
                   uiupdates, images, errors, calls, capturing, lastCall>>

\* _run, lines 174-182: the loop test.  With the stop flag set the thread
\* leaves the loop and clears both flags under the lock.  Otherwise it calls
\* _should_stop_full, whose first statement evaluates the name `path`, bound
\* nowhere in the module: NameError propagates out of _run and ends the
\* thread before the disk is queried, before any capture, and without the
\* clean-up of lines 180-182.
Run_loop(i) ==
    /\ workers[i].looping > 0
    /\ workers' = [workers EXCEPT ![i] =
                     IF @.stop
                     THEN [@ EXCEPT !.looping = @ - 1, !.exited = @ + 1,
                                    !.stop = FALSE, !.running = FALSE]
                     ELSE [@ EXCEPT !.looping = @ - 1, !.dead = @ + 1]]
    /\ UNCHANGED <<mode, interval, work_dir, min_free, now, disk_low,
                   uiupdates, images, errors, calls, capturing, lastCall>>

\* The clock advances.
Tick ==
    /\ now < MaxClock
    /\ now' = now + 1
    /\ UNCHANGED <<mode, interval, work_dir, min_free, workers, disk_low,
                   uiupdates, images, errors, calls, capturing, lastCall>>

Next ==
    \/ start_preview
    \/ stop_preview
    \/ \E mk \in MkdirOutcomes : start_recording(mk)
    \/ stop_recording
    \/ \E n \in IntervalInputs : set_interval(n)
    \/ \E i \in WorkerIds : Thread_start(i)
    \/ \E i \in WorkerIds : Thread_stop(i)
    \/ \E i \in WorkerIds, mk \in MkdirOutcomes : take_image_begin(i, mk)
    \/ \E o \in CaptureOutcomes : take_image_end(o)
    \/ \E i \in WorkerIds : Run_acquire(i)
    \/ \E i \in WorkerIds : Run_enter(i)
    \/ \E i \in WorkerIds : Run_loop(i)
    \/ Tick

Spec == Init /\ [][Next]_vars

\* The spawned threads are scheduled: while some thread can take a step of
\* _run, a thread eventually does.
FairSpec ==
    /\ Spec
    /\ WF_vars(\E i \in WorkerIds : Run_acquire(i) \/ Run_enter(i) \/ Run_loop(i))

TypeOK ==
    /\ mode \in STATES
    /\ Len(workers) <= MaxWorkers
    /\ calls \in 0..MaxCalls
    /\ now \in 0..MaxClock
    /\ capturing.w \in 0..Len(workers)

-----------------------------------------------------------------------------
(* Properties.                                                               *)

\* The step just taken is the control-plane call `op`.
IsCall(op) == calls' = calls + 1 /\ lastCall'.op = op

InRange(n) == MIN_INTERVAL <= n /\ n <= MAX_INTERVAL

\* Worker objects with a thread that is started and has not yet ended.
ActiveWorkers == {i \in WorkerIds : Live(workers[i]) > 0}

NoLoopRunning == ActiveWorkers = {}

\* C1: the mode is not Idle exactly when one worker is running or about to
\* run (a thread of it is started and its loop has not ended).
C1_ModeIffOneWorker ==
    (mode # IDLE) <=> (Cardinality(ActiveWorkers) = 1)

\* The last two control-plane calls were start_preview, made in Idle, and then
\* stop_preview.
PreviewStartedThenStopped ==
    /\ lastCall.op = "stop_preview"
    /\ lastCall.prevStart

\* C2: from Idle, start_preview then stop_preview leaves the mode Idle, and
\* eventually no worker loop is running.
C2_PreviewStartStop ==
    /\ [](PreviewStartedThenStopped => mode = IDLE)
    /\ (PreviewStartedThenStopped ~> NoLoopRunning)

C2_Witness ==
    /\ PreviewStartedThenStopped
    /\ mode = IDLE
    /\ Len(workers) = 1
    /\ workers[1].kind = PREVIEW
    /\ workers[1].dead = 1
    /\ NoLoopRunning

\* C3: stop() on a worker whose running flag is set requests termination: the
\* call sets the worker's stop flag.
C3_StopRequestsTermination ==
    [][(IsCall("stop") /\ workers[lastCall'.arg].running)
          => workers'[lastCall'.arg].stop]_vars

\* C4: whatever the interleaving, a worker started twice without a stop in
\* between has at most one loop task: no worker ever has two live threads.
C4_NoDuplicateLoop ==
    \A i \in WorkerIds : Live(workers[i]) <= 1

\* C5: a capture whose external invocation fails surfaces an error, leaves the
\* mode Idle and leaves every running worker with its stop requested.
C5_FailureStopsEveryWorker ==
    [][(IsCall("take_image") /\ lastCall'.outcome = "oserror")
          => /\ errors' = errors + 1
             /\ mode' = IDLE
             /\ \A i \in WorkerIds : workers[i].running => workers'[i].stop]_vars

\* C6: with free space below the threshold, once a worker's loop has ended the
\* mode is Idle and exactly one error has been shown, and no image was taken.
C6_DiskGuard ==
    (disk_low /\ \E i \in WorkerIds : workers[i].exited + workers[i].dead > 0)
        => (mode = IDLE /\ errors = 1)

\* C7: set_interval with an argument outside [MIN_INTERVAL, MAX_INTERVAL]
\* changes nothing: get_interval, the mode and the hooks stay as they were and
\* no exception is raised.
C7_OutOfRangeIgnored ==
    [][(IsCall("set_interval") /\ ~InRange(lastCall'.arg))
          => /\ get_interval' = get_interval
             /\ lastCall'.raised = "none"
             /\ mode' = mode
             /\ uiupdates' = uiupdates
             /\ images' = images
             /\ errors' = errors]_vars

C7_Witness ==
    /\ lastCall.op = "set_interval"
    /\ lastCall.arg = MAX_INTERVAL + 1
    /\ get_interval = MIN_INTERVAL

\* C8: after set_interval(n) with n in [MIN_INTERVAL, MAX_INTERVAL], in any
\* mode, get_interval is n.
C8_InRangeStored ==
    (lastCall.op = "set_interval" /\ InRange(lastCall.arg))
        => get_interval = lastCall.arg

C8_Witness ==
    /\ lastCall.op = "set_interval"
    /\ lastCall.arg = MAX_INTERVAL
    /\ lastCall.pre = RECORDING
    /\ get_interval = MAX_INTERVAL

\* C9: the configured interval is always within [MIN_INTERVAL, MAX_INTERVAL].
C9_IntervalInRange ==
    InRange(interval)

\* C10: stop_preview in a mode other than Preview changes nothing: the mode,
\* the workers and the count of mode-changed notifications stay as they were.
C10_StopPreviewElsewhereIgnored ==
    [][(IsCall("stop_preview") /\ mode # PREVIEW)
          => /\ mode' = mode
             /\ workers' = workers
             /\ uiupdates' = uiupdates]_vars

C10_Witness ==
    /\ lastCall.op = "stop_preview"
    /\ lastCall.pre = RECORDING
    /\ mode = RECORDING
    /\ \E i \in WorkerIds : workers[i].running

\* C11: stop_recording in a mode other than Recording changes nothing: the
\* mode and the count of mode-changed notifications stay as they were.
C11_StopRecordingElsewhereIgnored ==
    [][(IsCall("stop_recording") /\ mode # RECORDING)
          => /\ mode' = mode
             /\ uiupdates' = uiupdates]_vars

\* The last mode change has not been followed by a mode-changed notification:
\* the last control-plane call was a start_recording that changed the mode and
\* raised before firing on_uiupdate (nothing but a control-plane call fires it).
Unnotified ==
    /\ lastCall.op = "start_recording"
    /\ lastCall.raised # "none"
    /\ lastCall.pre # RECORDING

\* C12: every change of the mode is followed by a mode-changed notification
\* before the mode changes again: a step that changes the mode fires
\* on_uiupdate, or the next change waits for it.
C12_ModeChangeNotified ==
    [][mode' # mode => ~Unnotified]_vars

\* C13: a capture fires on_image, with the path of that capture, exactly when
\* the external invocation succeeded.
C13_ImageIffSuccess ==
    [][IsCall("take_image")
          => images' = IF lastCall'.outcome = "ok"
                       THEN Append(images, capturing.path)
                       ELSE images]_vars

\* C14: with enough free space and no stop requested, a started worker goes on
\* capturing: its loop task does not end.
C14_LoopKeepsCapturing ==
    \A i \in WorkerIds :
        (~disk_low /\ ~workers[i].stop) => workers[i].dead = 0

C16_FirstImageAtReturnedPath ==
    [][(/\ lastCall.op = "start_recording"
        /\ lastCall.raised = "none"
        /\ IsCall("take_image")
        /\ lastCall'.arg = Len(workers)
        /\ lastCall'.raised = "none")
          => lastCall'.ret = lastCall.ret]_vars

\* C17: two Record workers active at the same time never have the same output
\* path.
C17_DisjointPaths ==
    \A i, j \in ActiveWorkers :
        (i # j /\ workers[i].kind = RECORDING /\ workers[j].kind = RECORDING)
            => get_jpeg_path(workers[i].kind) # get_jpeg_path(workers[j].kind)

\* C18: a worker's lock is held only by a thread inside the lock region of
\* _run that writes the flags, and never by the caller while its capture on
\* that worker is in flight.
C18_LockOnlyAroundFlags ==
    \A i \in WorkerIds :
        /\ workers[i].lock # "caller"
        /\ (workers[i].lock = "thread") <=> (workers[i].entering = 1)
        /\ workers[i].entering <= 1

\* A thread of the worker takes the lock while a capture on that worker is in
\* flight.
C18_Witness ==
    \E i \in WorkerIds :
        /\ capturing.w = i
        /\ workers[i].lock = "thread"
        /\ workers[i].entering = 1

\* C19: once every loop task of a worker has ended, its running and stop flags
\* are both False.
C19_FlagsClearedAtEnd ==
    \A i \in WorkerIds :
        (Live(workers[i]) = 0 /\ workers[i].exited + workers[i].dead > 0)
            => (~workers[i].running /\ ~workers[i].stop)

\* The step just taken is one of the four start/stop operations of AppModel.
IsStartStop ==
    \/ IsCall("start_preview")
    \/ IsCall("stop_preview")
    \/ IsCall("start_recording")
    \/ IsCall("stop_recording")

\* C20: work_dir and min_free never change; the interval changes only by an
\* in-range set_interval; and a step that is not a start/stop operation
\* changes the mode only to Idle, as the failure handling of a capture.
C20_WorkerFrame ==
    [][/\ work_dir' = work_dir
       /\ min_free' = min_free
       /\ interval' # interval
             => (IsCall("set_interval") /\ InRange(lastCall'.arg)
                   /\ interval' = lastCall'.arg)
       /\ (mode' # mode /\ ~IsStartStop)
             => (mode' = IDLE /\ IsCall("take_image")
                   /\ lastCall'.outcome = "oserror")]_vars

C20_Witness ==
    /\ lastCall.op = "take_image"
    /\ lastCall.outcome = "oserror"
    /\ lastCall.pre = PREVIEW
    /\ mode = IDLE
    /\ \E i \in WorkerIds : workers[i].dead = 1

=============================================================================
